---- MODULE Spec2Model ----
(***************************************************************************)
(* Signal detection and scoring engine of the stock dashboard (src/db.py)  *)
(* and the pages that use it (src/app.py, src/pages).                      *)
(*                                                                         *)
(* Representation.                                                         *)
(*  - An optional numeric field (a pandas cell that may be NaN/None) is a  *)
(*    sequence: <<>> when unknown, <<v>> when known with value v.          *)
(*  - Indicator values are integers (index points for rsi_14 / mfi_14,     *)
(*    price units for the price fields).  On the integers used here the    *)
(*    float comparisons of the code agree with exact arithmetic, so         *)
(*    "x/y > 0.05" is evaluated as a comparison of fractions and the 0.7  *)
(*    band factor as 7/10.                                                 *)
(*  - Scores are kept in half points (score 2.5 is 5), because every       *)
(*    weight is a multiple of 0.5; the weights and the label thresholds    *)
(*    are the source's numbers times two.                                  *)
(*  - The Korean label strings are written by their English names.         *)
(*  - page holds the locals of the page being run: the loaded price rows   *)
(*    and the day change of Stock Detail, the stored news, filter, limit   *)
(*    and news_df of News Feed; it is <<>> where no page local is          *)
(*    modelled.                                                            *)
(***************************************************************************)
EXTENDS Integers, Sequences, FiniteSets, TLC

VARIABLES row, prev_row, signals, overall, pc, page

vars == <<row, prev_row, signals, overall, pc, page>>

(* ---------------- optional values (pd.notna / NaN / None) -------------- *)

NA == <<>>

notna(x) == x # <<>>

Val(x) == x[1]

\* row.get(field): None when the row has no such column
Get(r, field) == IF field \in DOMAIN r THEN r[field] ELSE NA

(* ---------------- _SIGNAL_WEIGHTS (in half points) --------------------- *)

WeightKeys == <<"rsi", "macd", "sma200", "cross", "bb", "mfi">>

\* variant: the rsi weight is written 15 instead of 1.5
_SIGNAL_WEIGHTS_Typo ==
    [k \in {"rsi", "macd", "sma200", "cross", "bb", "mfi"} |->
        CASE k = "rsi"    -> 30
          [] k = "macd"   -> 2
          [] k = "sma200" -> 3
          [] k = "cross"  -> 4
          [] k = "bb"     -> 1
          [] k = "mfi"    -> 2]

_SIGNAL_WEIGHTS ==
    [k \in {"rsi", "macd", "sma200", "cross", "bb", "mfi"} |->
        CASE k = "rsi"    -> 3
          [] k = "macd"   -> 2
          [] k = "sma200" -> 3
          [] k = "cross"  -> 4
          [] k = "bb"     -> 1
          [] k = "mfi"    -> 2]

(* ---------------- dict helpers ----------------------------------------- *)

EmptyDict == [k \in {} |-> 0]

Put(d, k, v) == (k :> v) @@ d

Rec(value, signal, strength, label) ==
    [value |-> value, signal |-> signal, strength |-> strength, label |-> label]

(* ---------------- detect_signals, rule by rule ------------------------- *)

\* variant: the oversold band includes 30
RsiRule_Le30(results, r) ==
    LET rsi == r.rsi_14 IN
    IF notna(rsi)
    THEN LET v == Val(rsi) IN
         IF v <= 30     THEN Put(results, "rsi", Rec(v, "BUY", 2, "oversold"))
         ELSE IF v < 45 THEN Put(results, "rsi", Rec(v, "BUY", 1, "buy-leaning"))
         ELSE IF v > 70 THEN Put(results, "rsi", Rec(v, "SELL", 2, "overbought"))
         ELSE IF v > 55 THEN Put(results, "rsi", Rec(v, "SELL", 1, "sell-leaning"))
         ELSE                Put(results, "rsi", Rec(v, "NEUTRAL", 0, "neutral"))
    ELSE results

RsiRule(results, r) ==
    LET rsi == r.rsi_14 IN
    IF notna(rsi)
    THEN LET v == Val(rsi) IN
         IF v < 30      THEN Put(results, "rsi", Rec(v, "BUY", 2, "oversold"))
         ELSE IF v < 45 THEN Put(results, "rsi", Rec(v, "BUY", 1, "buy-leaning"))
         ELSE IF v > 70 THEN Put(results, "rsi", Rec(v, "SELL", 2, "overbought"))
         ELSE IF v > 55 THEN Put(results, "rsi", Rec(v, "SELL", 1, "sell-leaning"))
         ELSE                Put(results, "rsi", Rec(v, "NEUTRAL", 0, "neutral"))
    ELSE results

\* variant: the MACD rule is skipped when rsi_14 is unknown
MacdRule_NeedsRsi(results, r) ==
    LET macd == r.macd
        macd_sig == r.macd_signal
    IN
    IF notna(r.rsi_14) /\ notna(macd) /\ notna(macd_sig)
    THEN LET diff == Val(macd) - Val(macd_sig) IN
         IF diff > 0      THEN Put(results, "macd", Rec(diff, "BUY", 1, "MACD bullish"))
         ELSE IF diff < 0 THEN Put(results, "macd", Rec(diff, "SELL", 1, "MACD bearish"))
         ELSE                  Put(results, "macd", Rec(diff, "NEUTRAL", 0, "MACD neutral"))
    ELSE results

\* variant: a zero difference counts as bullish
MacdRule_GeBuys(results, r) ==
    LET macd == r.macd
        macd_sig == r.macd_signal
    IN
    IF notna(macd) /\ notna(macd_sig)
    THEN LET diff == Val(macd) - Val(macd_sig) IN
         IF diff >= 0     THEN Put(results, "macd", Rec(diff, "BUY", 1, "MACD bullish"))
         ELSE IF diff < 0 THEN Put(results, "macd", Rec(diff, "SELL", 1, "MACD bearish"))
         ELSE                  Put(results, "macd", Rec(diff, "NEUTRAL", 0, "MACD neutral"))
    ELSE results

MacdRule(results, r) ==
    LET macd == r.macd
        macd_sig == r.macd_signal
    IN
    IF notna(macd) /\ notna(macd_sig)
    THEN LET diff == Val(macd) - Val(macd_sig) IN
         IF diff > 0      THEN Put(results, "macd", Rec(diff, "BUY", 1, "MACD bullish"))
         ELSE IF diff < 0 THEN Put(results, "macd", Rec(diff, "SELL", 1, "MACD bearish"))
         ELSE                  Put(results, "macd", Rec(diff, "NEUTRAL", 0, "MACD neutral"))
    ELSE results

\* num/den > p/q and num/den < p/q for den # 0, q > 0 (pct against +-0.05)
FracGT(num, den, p, q) ==
    IF den > 0 THEN num * q > p * den ELSE num * q < p * den

FracLT(num, den, p, q) ==
    IF den > 0 THEN num * q < p * den ELSE num * q > p * den

\* variant: the two BUY strengths are exchanged
Sma200Rule_SwappedStrength(results, r) ==
    LET close == Get(r, "close")
        sma200 == r.sma_200
    IN
    IF notna(close) /\ notna(sma200) /\ Val(sma200) # 0
    THEN LET num == Val(close) - Val(sma200)
             den == Val(sma200)
             pct == <<num, den>>
         IN
         IF FracGT(num, den, 1, 20)       THEN Put(results, "sma200", Rec(pct, "BUY", 1, "SMA200 +"))
         ELSE IF FracGT(num, den, 0, 1)   THEN Put(results, "sma200", Rec(pct, "BUY", 2, "SMA200 +"))
         ELSE IF FracLT(num, den, -1, 20) THEN Put(results, "sma200", Rec(pct, "SELL", 2, "SMA200 -"))
         ELSE                                  Put(results, "sma200", Rec(pct, "SELL", 1, "SMA200 -"))
    ELSE results

\* variant: no guard against sma_200 = 0
Sma200Rule_NoZeroGuard(results, r) ==
    LET close == Get(r, "close")
        sma200 == r.sma_200
    IN
    IF notna(close) /\ notna(sma200)
    THEN LET num == Val(close) - Val(sma200)
             den == Val(sma200)
             pct == <<num, den>>
         IN
         IF FracGT(num, den, 1, 20)       THEN Put(results, "sma200", Rec(pct, "BUY", 2, "SMA200 +"))
         ELSE IF FracGT(num, den, 0, 1)   THEN Put(results, "sma200", Rec(pct, "BUY", 1, "SMA200 +"))
         ELSE IF FracLT(num, den, -1, 20) THEN Put(results, "sma200", Rec(pct, "SELL", 2, "SMA200 -"))
         ELSE                                  Put(results, "sma200", Rec(pct, "SELL", 1, "SMA200 -"))
    ELSE results

\* variant: pct = 0.05 already counts as strength 2
Sma200Rule_Ge5pct(results, r) ==
    LET close == Get(r, "close")
        sma200 == r.sma_200
    IN
    IF notna(close) /\ notna(sma200) /\ Val(sma200) # 0
    THEN LET num == Val(close) - Val(sma200)
             den == Val(sma200)
             pct == <<num, den>>
         IN
         IF ~FracLT(num, den, 1, 20)       THEN Put(results, "sma200", Rec(pct, "BUY", 2, "SMA200 +"))
         ELSE IF FracGT(num, den, 0, 1)   THEN Put(results, "sma200", Rec(pct, "BUY", 1, "SMA200 +"))
         ELSE IF FracLT(num, den, -1, 20) THEN Put(results, "sma200", Rec(pct, "SELL", 2, "SMA200 -"))
         ELSE                                  Put(results, "sma200", Rec(pct, "SELL", 1, "SMA200 -"))
    ELSE results

\* variant: pct = 0 counts as BUY
Sma200Rule_ZeroBuys(results, r) ==
    LET close == Get(r, "close")
        sma200 == r.sma_200
    IN
    IF notna(close) /\ notna(sma200) /\ Val(sma200) # 0
    THEN LET num == Val(close) - Val(sma200)
             den == Val(sma200)
             pct == <<num, den>>
         IN
         IF FracGT(num, den, 1, 20)       THEN Put(results, "sma200", Rec(pct, "BUY", 2, "SMA200 +"))
         ELSE IF ~FracLT(num, den, 0, 1)   THEN Put(results, "sma200", Rec(pct, "BUY", 1, "SMA200 +"))
         ELSE IF FracLT(num, den, -1, 20) THEN Put(results, "sma200", Rec(pct, "SELL", 2, "SMA200 -"))
         ELSE                                  Put(results, "sma200", Rec(pct, "SELL", 1, "SMA200 -"))
    ELSE results

Sma200Rule(results, r) ==
    LET close == Get(r, "close")
        sma200 == r.sma_200
    IN
    IF notna(close) /\ notna(sma200) /\ Val(sma200) # 0
    THEN LET num == Val(close) - Val(sma200)
             den == Val(sma200)
             pct == <<num, den>>
         IN
         IF FracGT(num, den, 1, 20)       THEN Put(results, "sma200", Rec(pct, "BUY", 2, "SMA200 +"))
         ELSE IF FracGT(num, den, 0, 1)   THEN Put(results, "sma200", Rec(pct, "BUY", 1, "SMA200 +"))
         ELSE IF FracLT(num, den, -1, 20) THEN Put(results, "sma200", Rec(pct, "SELL", 2, "SMA200 -"))
         ELSE                                  Put(results, "sma200", Rec(pct, "SELL", 1, "SMA200 -"))
    ELSE results

\* variant: the current averages may be equal at a transition
CrossTransition_NowEqual(results, r, prev) ==
    LET sma50 == Val(r.sma_50)
        sma200 == Val(r.sma_200)
    IN
    IF prev # <<>>
    THEN LET p50 == Val(prev).sma_50
             p200 == Val(prev).sma_200
         IN
         IF notna(p50) /\ notna(p200)
         THEN IF Val(p50) <= Val(p200) /\ sma50 >= sma200
              THEN Put(results, "cross", Rec(sma50, "BUY", 2, "golden cross occurred"))
              ELSE IF Val(p50) >= Val(p200) /\ sma50 <= sma200
              THEN Put(results, "cross", Rec(sma50, "SELL", 2, "death cross occurred"))
              ELSE results
         ELSE results
    ELSE results

\* variant: the previous averages must differ strictly
CrossTransition_Strict(results, r, prev) ==
    LET sma50 == Val(r.sma_50)
        sma200 == Val(r.sma_200)
    IN
    IF prev # <<>>
    THEN LET p50 == Val(prev).sma_50
             p200 == Val(prev).sma_200
         IN
         IF notna(p50) /\ notna(p200)
         THEN IF Val(p50) < Val(p200) /\ sma50 > sma200
              THEN Put(results, "cross", Rec(sma50, "BUY", 2, "golden cross occurred"))
              ELSE IF Val(p50) > Val(p200) /\ sma50 < sma200
              THEN Put(results, "cross", Rec(sma50, "SELL", 2, "death cross occurred"))
              ELSE results
         ELSE results
    ELSE results

CrossTransition(results, r, prev) ==
    LET sma50 == Val(r.sma_50)
        sma200 == Val(r.sma_200)
    IN
    IF prev # <<>>
    THEN LET p50 == Val(prev).sma_50
             p200 == Val(prev).sma_200
         IN
         IF notna(p50) /\ notna(p200)
         THEN IF Val(p50) <= Val(p200) /\ sma50 > sma200
              THEN Put(results, "cross", Rec(sma50, "BUY", 2, "golden cross occurred"))
              ELSE IF Val(p50) >= Val(p200) /\ sma50 < sma200
              THEN Put(results, "cross", Rec(sma50, "SELL", 2, "death cross occurred"))
              ELSE results
         ELSE results
    ELSE results

\* variant: equal averages count as a golden cross holding
CrossFallback_GeBuys(results, r) ==
    LET sma50 == Val(r.sma_50)
        sma200 == Val(r.sma_200)
    IN
    IF "cross" \notin DOMAIN results
    THEN IF sma50 >= sma200
         THEN Put(results, "cross", Rec(sma50, "BUY", 1, "golden cross holding"))
         ELSE Put(results, "cross", Rec(sma50, "SELL", 1, "death cross holding"))
    ELSE results

\* variant: the steady-state rule is applied unconditionally
CrossFallback_Overwrite(results, r) ==
    LET sma50 == Val(r.sma_50)
        sma200 == Val(r.sma_200)
    IN
    IF sma50 > sma200
    THEN Put(results, "cross", Rec(sma50, "BUY", 1, "golden cross holding"))
    ELSE Put(results, "cross", Rec(sma50, "SELL", 1, "death cross holding"))

CrossFallback(results, r) ==
    LET sma50 == Val(r.sma_50)
        sma200 == Val(r.sma_200)
    IN
    IF "cross" \notin DOMAIN results
    THEN IF sma50 > sma200
         THEN Put(results, "cross", Rec(sma50, "BUY", 1, "golden cross holding"))
         ELSE Put(results, "cross", Rec(sma50, "SELL", 1, "death cross holding"))
    ELSE results

\* variant: the cross rule shares the sma_200 # 0 guard of the SMA200 rule
CrossRule_ZeroGuard(results, r, prev) ==
    IF notna(r.sma_50) /\ notna(r.sma_200) /\ Val(r.sma_200) # 0
    THEN CrossFallback(CrossTransition(results, r, prev), r)
    ELSE results

CrossRule(results, r, prev) ==
    IF notna(r.sma_50) /\ notna(r.sma_200)
    THEN CrossFallback(CrossTransition(results, r, prev), r)
    ELSE results

\* the two zones times ten: 10*bb_m + 7*(bb_u - bb_m), 10*bb_m - 7*(bb_m - bb_l)
upper_zone10(bb_u, bb_m) == 10 * bb_m + 7 * (bb_u - bb_m)

lower_zone10(bb_l, bb_m) == 10 * bb_m - 7 * (bb_m - bb_l)

\* variant: the band zones count as strong signals
BbRule_Strength2(results, r) ==
    LET close == Get(r, "close")
        bb_u == r.bb_upper
        bb_l == r.bb_lower
        bb_m == r.bb_middle
    IN
    IF notna(close) /\ notna(bb_u) /\ notna(bb_l) /\ notna(bb_m)
    THEN LET c == Val(close) IN
         IF 10 * c >= upper_zone10(Val(bb_u), Val(bb_m))
         THEN Put(results, "bb", Rec(c, "SELL", 2, "near upper band"))
         ELSE IF 10 * c <= lower_zone10(Val(bb_l), Val(bb_m))
         THEN Put(results, "bb", Rec(c, "BUY", 2, "near lower band"))
         ELSE Put(results, "bb", Rec(c, "NEUTRAL", 0, "mid-range"))
    ELSE results

\* variant: the lower zone is tested first
BbRule_LowerFirst(results, r) ==
    LET close == Get(r, "close")
        bb_u == r.bb_upper
        bb_l == r.bb_lower
        bb_m == r.bb_middle
    IN
    IF notna(close) /\ notna(bb_u) /\ notna(bb_l) /\ notna(bb_m)
    THEN LET c == Val(close) IN
         IF 10 * c <= lower_zone10(Val(bb_l), Val(bb_m))
         THEN Put(results, "bb", Rec(c, "BUY", 1, "near lower band"))
         ELSE IF 10 * c >= upper_zone10(Val(bb_u), Val(bb_m))
         THEN Put(results, "bb", Rec(c, "SELL", 1, "near upper band"))
         ELSE Put(results, "bb", Rec(c, "NEUTRAL", 0, "mid-range"))
    ELSE results

BbRule(results, r) ==
    LET close == Get(r, "close")
        bb_u == r.bb_upper
        bb_l == r.bb_lower
        bb_m == r.bb_middle
    IN
    IF notna(close) /\ notna(bb_u) /\ notna(bb_l) /\ notna(bb_m)
    THEN LET c == Val(close) IN
         IF 10 * c >= upper_zone10(Val(bb_u), Val(bb_m))
         THEN Put(results, "bb", Rec(c, "SELL", 1, "near upper band"))
         ELSE IF 10 * c <= lower_zone10(Val(bb_l), Val(bb_m))
         THEN Put(results, "bb", Rec(c, "BUY", 1, "near lower band"))
         ELSE Put(results, "bb", Rec(c, "NEUTRAL", 0, "mid-range"))
    ELSE results

\* variant: the oversold band includes 20
MfiRule_Le20(results, r) ==
    LET mfi == r.mfi_14 IN
    IF notna(mfi)
    THEN LET v == Val(mfi) IN
         IF v <= 20     THEN Put(results, "mfi", Rec(v, "BUY", 2, "MFI oversold"))
         ELSE IF v > 80 THEN Put(results, "mfi", Rec(v, "SELL", 2, "MFI overbought"))
         ELSE                Put(results, "mfi", Rec(v, "NEUTRAL", 0, "MFI neutral"))
    ELSE results

MfiRule(results, r) ==
    LET mfi == r.mfi_14 IN
    IF notna(mfi)
    THEN LET v == Val(mfi) IN
         IF v < 20      THEN Put(results, "mfi", Rec(v, "BUY", 2, "MFI oversold"))
         ELSE IF v > 80 THEN Put(results, "mfi", Rec(v, "SELL", 2, "MFI overbought"))
         ELSE                Put(results, "mfi", Rec(v, "NEUTRAL", 0, "MFI neutral"))
    ELSE results

detect_signals(r, prev) ==
    MfiRule(BbRule(CrossRule(Sma200Rule(MacdRule(RsiRule(EmptyDict, r), r), r), r, prev), r), r)

(* ---------------- compute_overall_signal ------------------------------- *)

\* variant: a SELL record is not subtracted
AddSignal_NoSell(score, sigs, key) ==
    IF key \notin DOMAIN sigs THEN score
    ELSE LET s == sigs[key] IN
         IF s.signal = "BUY" THEN score + _SIGNAL_WEIGHTS[key] * s.strength
         ELSE score

AddSignal(score, sigs, key) ==
    IF key \notin DOMAIN sigs THEN score
    ELSE LET s == sigs[key] IN
         IF s.signal = "BUY" THEN score + _SIGNAL_WEIGHTS[key] * s.strength
         ELSE IF s.signal = "SELL" THEN score - _SIGNAL_WEIGHTS[key] * s.strength
         ELSE score

RECURSIVE ScoreLoop(_, _, _)
ScoreLoop(score, sigs, i) ==
    IF i > Len(WeightKeys) THEN score
    ELSE ScoreLoop(AddSignal(score, sigs, WeightKeys[i]), sigs, i + 1)

\* variant: the two sell labels are exchanged
LabelOf_SwappedSell(score) ==
    IF score >= 10 THEN "StrongBuy"
    ELSE IF score >= 4 THEN "Buy"
    ELSE IF score <= -10 THEN "Sell"
    ELSE IF score <= -4 THEN "StrongSell"
    ELSE "Neutral"

\* variant: the Sell band excludes its edge -2.0
LabelOf_StrictSell(score) ==
    IF score >= 10 THEN "StrongBuy"
    ELSE IF score >= 4 THEN "Buy"
    ELSE IF score <= -10 THEN "StrongSell"
    ELSE IF score < -4 THEN "Sell"
    ELSE "Neutral"

\* variant: the final return of the neutral label is missing
LabelOf_NoDefault(score) ==
    IF score >= 10 THEN "StrongBuy"
    ELSE IF score >= 4 THEN "Buy"
    ELSE IF score <= -10 THEN "StrongSell"
    ELSE IF score <= -4 THEN "Sell"
    ELSE "None"

LabelOf(score) ==
    IF score >= 10 THEN "StrongBuy"
    ELSE IF score >= 4 THEN "Buy"
    ELSE IF score <= -10 THEN "StrongSell"
    ELSE IF score <= -4 THEN "Sell"
    ELSE "Neutral"

(* The label strings of the source, as sequences of Unicode code points.   *)

\* variant: the neutral label is misspelt (second syllable U+B9BC)
LabelText_Typo ==
    [l \in {"StrongBuy", "Buy", "Neutral", "Sell", "StrongSell"} |->
        CASE l = "StrongBuy"  -> <<44053, 47141, 47588, 49688>>
          [] l = "Buy"        -> <<47588, 49688>>
          [] l = "Neutral"    -> <<51473, 47548>>
          [] l = "Sell"       -> <<47588, 46020>>
          [] l = "StrongSell" -> <<44053, 47141, 47588, 46020>>]

\* the string literals returned by compute_overall_signal
LabelText ==
    [l \in {"StrongBuy", "Buy", "Neutral", "Sell", "StrongSell"} |->
        CASE l = "StrongBuy"  -> <<44053, 47141, 47588, 49688>>
          [] l = "Buy"        -> <<47588, 49688>>
          [] l = "Neutral"    -> <<51473, 47549>>
          [] l = "Sell"       -> <<47588, 46020>>
          [] l = "StrongSell" -> <<44053, 47141, 47588, 46020>>]

\* the keys of SIGNAL_COLORS
SIGNAL_COLORS ==
    {<<44053, 47141, 47588, 49688>>, <<47588, 49688>>, <<51473, 47549>>,
     <<47588, 46020>>, <<44053, 47141, 47588, 46020>>}

\* the options (and the default) of the Screener's signal multiselect
sig_filter_options ==
    {<<44053, 47141, 47588, 49688>>, <<47588, 49688>>, <<51473, 47549>>,
     <<47588, 46020>>, <<44053, 47141, 47588, 46020>>}

\* mask &= screen_df[signal].isin(sig_filter), applied only if sig_filter
sig_filter_pass(sig_filter, text) ==
    IF sig_filter # {} THEN text \in sig_filter ELSE TRUE

\* the label lists of the Home page's buy and sell counters
buy_sigs == {<<47588, 49688>>, <<44053, 47141, 47588, 49688>>}

sell_sigs == {<<47588, 46020>>, <<44053, 47141, 47588, 46020>>}

compute_overall_signal(sigs) ==
    LET score == ScoreLoop(0, sigs, 1) IN
    [label |-> LabelOf(score), score |-> score]

(* ---------------- inputs ------------------------------------------------ *)
(* Price fields share one scale: sma_200 = 140, so that close = 133 and    *)
(* 147 are exactly -5% and +5%, and the bands 120/140/160 put the two      *)
(* Bollinger zones at 126 and 154.                                         *)

MaxMacd == 2

Opt(S) == {NA} \cup {<<v>> : v \in S}

RsiVals == {29, 30, 44, 45, 55, 56, 70, 71}

MfiVals == {19, 20, 80, 81}

\* (macd, macd_signal): the signal line is 1, macd ranges over 0..MaxMacd
MacdPairs ==
    {<<NA, NA>>, <<NA, <<1>>>>, <<<<1>>, NA>>} \cup {<<<<m>>, <<1>>>> : m \in 0..MaxMacd}

CloseVals == {126, 133, 140, 147, 154}

Sma200Vals == {0, 140}

Sma50Vals == {139, 140, 141}

\* (bb_upper, bb_middle, bb_lower)
BbTriples ==
    {<<NA, NA, NA>>, <<NA, <<140>>, <<120>>>>, <<<<160>>, NA, <<120>>>>,
     <<<<160>>, <<140>>, NA>>, <<<<160>>, <<140>>, <<120>>>>,
     <<<<140>>, <<140>>, <<140>>>>}

\* the previous row, of which detect_signals reads sma_50 and sma_200 only
PrevRows ==
    {NA} \cup
    {<<[sma_50 |-> p[1], sma_200 |-> p[2]]>> :
        p \in {<<NA, <<140>>>>, <<<<139>>, NA>>} \cup {<<<<a>>, <<140>>>> : a \in Sma50Vals}}

\* one value on each side of every rule, and NA: what a field ranges over
\* while the fields of the other group take every value
RsiSides == {NA, <<29>>, <<71>>}

MfiSides == {NA, <<19>>, <<81>>}

MacdSides == {<<NA, NA>>, <<<<0>>, <<1>>>>, <<<<2>>, <<1>>>>}

CloseSides == {NA, <<126>>, <<154>>}

Sma50Sides == {NA, <<139>>, <<141>>}

Sma200Sides == {NA, <<140>>}

BbSides == {<<NA, NA, NA>>, <<<<160>>, <<140>>, <<120>>>>, <<<<140>>, <<140>>, <<140>>>>}

RowOf(c, r, m, s50, s200, b, f) ==
    [close |-> c, rsi_14 |-> r, macd |-> m[1], macd_signal |-> m[2],
     sma_50 |-> s50, sma_200 |-> s200,
     bb_upper |-> b[1], bb_middle |-> b[2], bb_lower |-> b[3], mfi_14 |-> f]

\* the rows: every combination of the price fields (close, the averages,
\* the bands) with the oscillators on either side of their rules, and every
\* combination of the oscillators (rsi, macd, mfi) with the price fields on
\* either side of theirs
Rows ==
    {RowOf(c, r, m, s50, s200, b, f) :
        c \in Opt(CloseVals), r \in RsiSides, m \in MacdSides,
        s50 \in Opt(Sma50Vals), s200 \in Opt(Sma200Vals), b \in BbTriples,
        f \in MfiSides}
    \cup
    {RowOf(c, r, m, s50, s200, b, f) :
        c \in CloseSides, r \in Opt(RsiVals), m \in MacdPairs,
        s50 \in Sma50Sides, s200 \in Sma200Sides, b \in BbSides,
        f \in Opt(MfiVals)}

NoRow ==
    [close |-> NA, rsi_14 |-> NA, macd |-> NA, macd_signal |-> NA,
     sma_50 |-> NA, sma_200 |-> NA,
     bb_upper |-> NA, bb_middle |-> NA, bb_lower |-> NA, mfi_14 |-> NA]

Keys == {"rsi", "macd", "sma200", "cross", "bb", "mfi"}

\* any SignalSet a caller may hand to compute_overall_signal
AnyRecs ==
    [signal : {"BUY", "SELL"}, strength : 1..2] \cup [signal : {"NEUTRAL"}, strength : {0, 2}]

SignalSets == UNION {[K -> AnyRecs] : K \in SUBSET Keys}

\* the row load_overview_data returns for a latest stock_prices row l: the
\* close column is selected AS price (the symbol and the ret_* columns,
\* which no signal rule reads, are left out)
load_overview_data(l) ==
    [price |-> l.close, rsi_14 |-> l.rsi_14, macd |-> l.macd,
     macd_signal |-> l.macd_signal, sma_50 |-> l.sma_50, sma_200 |-> l.sma_200,
     bb_upper |-> l.bb_upper, bb_lower |-> l.bb_lower, bb_middle |-> l.bb_middle,
     mfi_14 |-> l.mfi_14]

(* ---------------- the request: detect, then aggregate ------------------ *)

Init ==
    /\ row \in Rows
    /\ prev_row \in PrevRows
    /\ signals = EmptyDict
    /\ overall = NA
    /\ pc = "start"
    /\ page = NA

\* signals = detect_signals(latest, prev_row=prev)
DetectSignals ==
    /\ pc = "start"
    /\ signals' = detect_signals(row, prev_row)
    /\ pc' = "detected"
    /\ UNCHANGED <<row, prev_row, overall, page>>

\* overall, score = compute_overall_signal(signals)
ComputeOverall ==
    /\ pc = "detected"
    /\ overall' = compute_overall_signal(signals)
    /\ pc' = "done"
    /\ UNCHANGED <<row, prev_row, signals, page>>

Next == DetectSignals \/ ComputeOverall

Spec == Init /\ [][Next]_vars

(* The aggregator alone, on an arbitrary SignalSet.                        *)

InitAgg ==
    /\ row = NoRow
    /\ prev_row = NA
    /\ signals \in SignalSets
    /\ overall = NA
    /\ pc = "detected"
    /\ page = NA

NextAgg == ComputeOverall

SpecAgg == InitAgg /\ [][NextAgg]_vars

(* Home, Screener and Comparison: detect_signals(row) on an overview row,  *)
(* without a previous row.                                                 *)

InitOverview ==
    /\ row \in {load_overview_data(l) : l \in Rows}
    /\ prev_row = NA
    /\ signals = EmptyDict
    /\ overall = NA
    /\ pc = "start"
    /\ page = NA

SpecOverview == InitOverview /\ [][Next]_vars

(* Two script runs evaluating rows at the same time.  Each run has its own *)
(* locals, so here every variable is a function of the run; a run that     *)
(* finished a row goes on to another one, its locals keeping their last    *)
(* values until they are assigned again.  The only module-level object the *)
(* two functions touch is _SIGNAL_WEIGHTS, which is read and never         *)
(* written.                                                                *)

Evals == {"A", "B"}

BullRow ==
    [close |-> <<154>>, rsi_14 |-> <<29>>, macd |-> <<2>>, macd_signal |-> <<1>>,
     sma_50 |-> <<141>>, sma_200 |-> <<140>>,
     bb_upper |-> <<160>>, bb_middle |-> <<140>>, bb_lower |-> <<120>>, mfi_14 |-> <<19>>]

BearRow ==
    [close |-> <<126>>, rsi_14 |-> <<71>>, macd |-> <<0>>, macd_signal |-> <<1>>,
     sma_50 |-> <<139>>, sma_200 |-> <<140>>,
     bb_upper |-> <<160>>, bb_middle |-> <<140>>, bb_lower |-> <<120>>, mfi_14 |-> <<81>>]

ParRows == {NoRow, [NoRow EXCEPT !.rsi_14 = <<29>>], BullRow, BearRow}

ParPrevs ==
    {NA, <<[sma_50 |-> <<139>>, sma_200 |-> <<140>>]>>,
         <<[sma_50 |-> <<141>>, sma_200 |-> <<140>>]>>}

InitPar ==
    /\ row \in [Evals -> ParRows]
    /\ prev_row \in [Evals -> ParPrevs]
    /\ signals = [e \in Evals |-> EmptyDict]
    /\ overall = [e \in Evals |-> NA]
    /\ pc = [e \in Evals |-> "start"]
    /\ page = NA

\* variant: one results dict is shared by all runs
ParDetect_Shared(e) ==
    /\ pc[e] = "start"
    /\ signals' = [f \in Evals |-> detect_signals(row[e], prev_row[e])]
    /\ pc' = [pc EXCEPT ![e] = "detected"]
    /\ UNCHANGED <<row, prev_row, overall, page>>

\* variant: the results dict survives from one call to the next
ParDetect_Accum(e) ==
    /\ pc[e] = "start"
    /\ signals' = [signals EXCEPT ![e] = detect_signals(row[e], prev_row[e]) @@ signals[e]]
    /\ pc' = [pc EXCEPT ![e] = "detected"]
    /\ UNCHANGED <<row, prev_row, overall, page>>

ParDetect(e) ==
    /\ pc[e] = "start"
    /\ signals' = [signals EXCEPT ![e] = detect_signals(row[e], prev_row[e])]
    /\ pc' = [pc EXCEPT ![e] = "detected"]
    /\ UNCHANGED <<row, prev_row, overall, page>>

ParCompute(e) ==
    /\ pc[e] = "detected"
    /\ overall' = [overall EXCEPT ![e] = compute_overall_signal(signals[e])]
    /\ pc' = [pc EXCEPT ![e] = "done"]
    /\ UNCHANGED <<row, prev_row, signals, page>>

\* the run goes on to its next row
ParNextRow(e) ==
    /\ pc[e] = "done"
    /\ \E r \in ParRows, p \in ParPrevs :
        /\ row' = [row EXCEPT ![e] = r]
        /\ prev_row' = [prev_row EXCEPT ![e] = p]
    /\ pc' = [pc EXCEPT ![e] = "start"]
    /\ UNCHANGED <<signals, overall, page>>

NextPar == \E e \in Evals : ParDetect(e) \/ ParCompute(e) \/ ParNextRow(e)

SpecPar == InitPar /\ [][NextPar]_vars

(* The Comparison page's indicator table: one pass of its loop per         *)
(* selected symbol.  ov_map holds one pandas Series per overview row, and  *)
(* ov_map.get(sym, {}) is that Series or an empty dict.                    *)

CmpOvs == {load_overview_data(l) : l \in Rows} \cup {EmptyDict}

\* bool(ov), as `if ov` computes it: a dict is true iff it has a key; the
\* truth value of a Series of the overview's columns is ambiguous and pandas
\* raises ValueError for it.  A row of ov_map always has its columns, so
\* an ov with a column is a Series.
truth_value(ov) == IF DOMAIN ov = {} THEN "False" ELSE "ValueError"

InitComparison ==
    /\ row \in CmpOvs
    /\ prev_row = NA
    /\ signals = EmptyDict
    /\ overall = NA
    /\ pc = "start"
    /\ page = NA

\* sigs = detect_signals(ov) if ov else {}
CmpSignals ==
    /\ pc = "start"
    /\ LET b == truth_value(row) IN
       IF b = "ValueError"
       THEN pc' = "raised" /\ signals' = signals
       ELSE /\ signals' = IF b = "True" THEN detect_signals(row, NA) ELSE EmptyDict
            /\ pc' = "detected"
    /\ UNCHANGED <<row, prev_row, overall, page>>

\* overall, score = compute_overall_signal(sigs) if sigs else ("Neutral", 0)
CmpOverall ==
    /\ pc = "detected"
    /\ overall' = IF DOMAIN signals # {}
                  THEN compute_overall_signal(signals)
                  ELSE [label |-> "Neutral", score |-> 0]
    /\ pc' = "done"
    /\ UNCHANGED <<row, prev_row, signals, page>>

\* for sym in selected: the next symbol's ov
CmpNextSymbol ==
    /\ pc = "done"
    /\ row' \in CmpOvs
    /\ pc' = "start"
    /\ UNCHANGED <<prev_row, signals, overall, page>>

NextComparison == CmpSignals \/ CmpOverall \/ CmpNextSymbol

SpecComparison == InitComparison /\ [][NextComparison]_vars

(* The Stock Detail page: the loaded price rows, the latest and previous   *)
(* row, the day change of the header, then the signal panel.               *)

\* the most rows load_prices returns
MaxRows == 2

DetailCloseVals == CloseVals \cup {0}

\* the last row of load_prices
LatestRows ==
    {RowOf(c, r, <<NA, NA>>, s50, s200, b, NA) :
        c \in Opt(DetailCloseVals), r \in {NA, <<29>>},
        s50 \in Opt(Sma50Vals), s200 \in Opt(Sma200Vals),
        b \in {<<NA, NA, NA>>, <<<<160>>, <<140>>, <<120>>>>}}

\* the row before it, of which the page reads close, sma_50 and sma_200
EarlierRows ==
    {RowOf(c, NA, <<NA, NA>>, s50, s200, <<NA, NA, NA>>, NA) :
        c \in Opt(DetailCloseVals), s50 \in Opt(Sma50Vals), s200 \in Opt(Sma200Vals)}

\* load_prices(symbol, days) when it is not empty: 1..MaxRows rows in
\* trade_date order (rows before the last two are never read)
PriceFrame(n, l, p) ==
    [i \in 1..n |-> IF i = n THEN l ELSE IF i = n - 1 THEN p ELSE NoRow]

\* float subtraction: NaN when either side is NaN
fsub(a, b) == IF notna(a) /\ notna(b) THEN <<Val(a) - Val(b)>> ELSE NA

\* bool(x) of a float: false for 0.0 only (NaN is true)
truthy(x) == IF notna(x) THEN Val(x) # 0 ELSE TRUE

\* the fallback value 0 and the quotient a / b * 100 as an exact fraction:
\* NaN when either side is NaN; a fraction of denominator 0 is no number
\* (the division by zero itself)
ZeroPct == <<[num |-> 0, den |-> 1]>>

fdiv100(a, b) ==
    IF notna(a) /\ notna(b) THEN <<[num |-> Val(a) * 100, den |-> Val(b)]>> ELSE NA

InitDetail ==
    /\ row = NoRow
    /\ prev_row = NA
    /\ signals = EmptyDict
    /\ overall = NA
    /\ pc = "start"
    /\ \E n \in 1..MaxRows, l \in LatestRows :
        \E p \in IF n = 1 THEN {NoRow} ELSE EarlierRows :
            page = [df |-> PriceFrame(n, l, p)]

\* latest = df.iloc[-1]; prev = df.iloc[-2] if len(df) > 1 else latest
DetailLatest ==
    /\ pc = "start"
    /\ LET df == page.df IN
        /\ row' = df[Len(df)]
        /\ prev_row' = <<IF Len(df) > 1 THEN df[Len(df) - 1] ELSE df[Len(df)]>>
    /\ pc' = "latest"
    /\ UNCHANGED <<signals, overall, page>>

\* chg = latest["close"] - prev["close"]
\* chg_pct = chg / prev["close"] * 100 if prev["close"] else 0
DetailChange ==
    /\ pc = "latest"
    /\ LET prev == Val(prev_row)
           chg == fsub(row.close, prev.close)
           chg_pct == IF truthy(prev.close) THEN fdiv100(chg, prev.close) ELSE ZeroPct
       IN page' = [df |-> page.df, chg |-> chg, chg_pct |-> chg_pct]
    /\ pc' = "changed"
    /\ UNCHANGED <<row, prev_row, signals, overall>>

\* signals = detect_signals(latest, prev_row=prev)
DetailSignals ==
    /\ pc = "changed"
    /\ signals' = detect_signals(row, prev_row)
    /\ pc' = "detected"
    /\ UNCHANGED <<row, prev_row, overall, page>>

\* overall, score = compute_overall_signal(signals)
DetailOverall ==
    /\ pc = "detected"
    /\ overall' = compute_overall_signal(signals)
    /\ pc' = "done"
    /\ UNCHANGED <<row, prev_row, signals, page>>

NextDetail == DetailLatest \/ DetailChange \/ DetailSignals \/ DetailOverall

SpecDetail == InitDetail /\ [][NextDetail]_vars

(* The News Feed page with a symbol filter.  stock_news holds at most one  *)
(* row per (symbol, url); published may be NULL.                           *)

\* the slider's limit (20..200 in the source) on the scale of the stored
\* news of the model: 1..MaxLimit
MaxLimit == 2

NewsSymbols == {"A", "B"}

NewsUrls == {"u1", "u2", "u3"}

PublishedVals == Opt({1, 2})

\* the selections of the symbol filter, in the order they were picked
SymFilters == {<<"A">>, <<"B">>, <<"A", "B">>, <<"B", "A">>}

\* a ORDER BY published DESC NULLS LAST b: a may come before b
NotAfter(a, b) == b = NA \/ (a # NA /\ Val(a) >= Val(b))

SortedByPublished(seq) ==
    \A i \in 1..Len(seq), j \in 1..Len(seq) :
        i < j => NotAfter(seq[i].published, seq[j].published)

\* every order in which the rows of a set can come out of a sort by
\* published, descending, unknown times last (rows of equal time in any
\* order)
Orderings(rows) ==
    {seq \in [1..Cardinality(rows) -> rows] :
        /\ \A r \in rows : \E i \in 1..Cardinality(rows) : seq[i] = r
        /\ SortedByPublished(seq)}

head(seq, n) == SubSeq(seq, 1, IF Len(seq) < n THEN Len(seq) ELSE n)

\* load_news(symbol, limit): what the query may return
load_news(table, symbol, limit) ==
    {head(o, limit) : o \in Orderings({r \in table : r.symbol = symbol})}

\* drop_duplicates(subset=["url"]): the first row of every url is kept
drop_duplicates(seq) ==
    LET kept == {i \in 1..Len(seq) : \A j \in 1..(i - 1) : seq[j].url # seq[i].url}
        nth[k \in 0..Cardinality(kept)] ==
            IF k = 0 THEN 0 ELSE CHOOSE i \in kept : i > nth[k - 1] /\ \A j \in kept : j > nth[k - 1] => i <= j
    IN [k \in 1..Cardinality(kept) |-> seq[nth[k]]]

InitNews ==
    /\ row = NoRow
    /\ prev_row = NA
    /\ signals = EmptyDict
    /\ overall = NA
    /\ pc = "start"
    /\ \E stored \in SUBSET (NewsSymbols \X NewsUrls), f \in SymFilters, n \in 1..MaxLimit :
        \E pub \in [stored -> PublishedVals] :
            page = [stock_news |-> {[symbol |-> k[1], url |-> k[2], published |-> pub[k]] :
                                        k \in stored},
                    sym_filter |-> f, limit |-> n, news_df |-> <<>>]

\* frames = [load_news(s, limit=limit) for s in sym_filter]
\* news_df = pd.concat(frames, ignore_index=True)
NewsLoad ==
    /\ pc = "start"
    /\ LET f == page.sym_filter IN
       \E first \in load_news(page.stock_news, f[1], page.limit) :
           \E second \in IF Len(f) > 1
                         THEN load_news(page.stock_news, f[2], page.limit)
                         ELSE {<<>>} :
               page' = [page EXCEPT !.news_df = first \o second]
    /\ pc' = "loaded"
    /\ UNCHANGED <<row, prev_row, signals, overall>>

\* if not news_df.empty:
\*     news_df = news_df.drop_duplicates(subset=["url"])
\*                      .sort_values("published", ascending=False, na_position="last")
\*                      .head(limit)
NewsTrim ==
    /\ pc = "loaded"
    /\ IF page.news_df # <<>>
       THEN LET kept == drop_duplicates(page.news_df) IN
            \E o \in Orderings({kept[i] : i \in 1..Len(kept)}) :
                page' = [page EXCEPT !.news_df = head(o, page.limit)]
       ELSE page' = page
    /\ pc' = "done"
    /\ UNCHANGED <<row, prev_row, signals, overall>>

NextNews == NewsLoad \/ NewsTrim

SpecNews == InitNews /\ [][NextNews]_vars

(* ======================================================================= *)
(* Properties                                                              *)
(* ======================================================================= *)

Detected == pc \in {"detected", "done"}

Has(k) == k \in DOMAIN signals

Is(k, signal, strength) ==
    Has(k) /\ signals[k].signal = signal /\ signals[k].strength = strength

signed_strength(s) ==
    IF s.signal = "BUY" THEN s.strength
    ELSE IF s.signal = "SELL" THEN 0 - s.strength
    ELSE 0

\* weight2 is twice the weight of the key
Term(k, weight2) == IF Has(k) THEN weight2 * signed_strength(signals[k]) ELSE 0

\* C1: the score is the sum, over the keys present, of weight * signed
\* strength with the weights rsi 1.5, macd 1.0, sma200 1.5, cross 2.0,
\* bb 0.5, mfi 1.0 (half points: 3, 2, 3, 4, 1, 2); absent keys add 0, and
\* {rsi: BUY/2, macd: BUY/1, sma200: SELL/1} scores 2.5.
C1_WeightedSum ==
    pc = "done" =>
        /\ overall.score = Term("rsi", 3) + Term("macd", 2) + Term("sma200", 3)
                           + Term("cross", 4) + Term("bb", 1) + Term("mfi", 2)
        /\ (/\ DOMAIN signals = {"rsi", "macd", "sma200"}
            /\ Is("rsi", "BUY", 2) /\ Is("macd", "BUY", 1) /\ Is("sma200", "SELL", 1))
           => overall.score = 5

C1_Witness ==
    /\ pc = "done"
    /\ DOMAIN signals = {"rsi", "macd", "sma200"}
    /\ Is("rsi", "BUY", 2) /\ Is("macd", "BUY", 1) /\ Is("sma200", "SELL", 1)
    /\ overall.score = 5
    /\ overall.label = "Buy"

\* C2: the label is decided by the score alone, in disjoint bands that cover
\* every score: >= 5.0 StrongBuy, [2.0, 5.0) Buy, <= -5.0 StrongSell,
\* (-5.0, -2.0] Sell, (-2.0, 2.0) Neutral (half points: 10, 4, -4, -10).
C2_LabelBands ==
    pc = "done" =>
        LET sc == overall.score
            lb == overall.label
        IN
        /\ lb = "StrongBuy"  <=> sc >= 10
        /\ lb = "Buy"        <=> (4 <= sc /\ sc < 10)
        /\ lb = "StrongSell" <=> sc <= -10
        /\ lb = "Sell"       <=> (-10 < sc /\ sc <= -4)
        /\ lb = "Neutral"    <=> (-4 < sc /\ sc < 4)

C2_Witness ==
    /\ pc = "done"
    /\ overall.score = -4
    /\ overall.label = "Sell"

RsiKnown == notna(row.rsi_14)

MacdKnown == notna(row.macd) /\ notna(row.macd_signal)

Sma200Known == notna(row.close) /\ notna(row.sma_200) /\ Val(row.sma_200) # 0

CrossKnown == notna(row.sma_50) /\ notna(row.sma_200)

BbKnown ==
    notna(row.close) /\ notna(row.bb_upper) /\ notna(row.bb_lower) /\ notna(row.bb_middle)

MfiKnown == notna(row.mfi_14)

OnlyRsiKnown ==
    /\ notna(row.rsi_14)
    /\ \A f \in DOMAIN row \ {"rsi_14"} : row[f] = NA

\* C3: detection is defined for every row, and a key is in the result
\* exactly when the inputs of its rule are all known (sma200 also needs
\* sma_200 # 0); the keys are among the six, and a row with only rsi_14
\* known gives exactly the key rsi.
C3_KeysIffInputsKnown ==
    /\ pc = "start" => ENABLED DetectSignals
    /\ Detected =>
        /\ DOMAIN signals \subseteq {"rsi", "macd", "sma200", "cross", "bb", "mfi"}
        /\ Has("rsi") <=> RsiKnown
        /\ Has("macd") <=> MacdKnown
        /\ Has("sma200") <=> Sma200Known
        /\ Has("cross") <=> CrossKnown
        /\ Has("bb") <=> BbKnown
        /\ Has("mfi") <=> MfiKnown
        /\ OnlyRsiKnown => DOMAIN signals = {"rsi"}

C3_Witness ==
    /\ Detected
    /\ OnlyRsiKnown
    /\ DOMAIN signals = {"rsi"}

PrevKnown ==
    /\ prev_row # NA
    /\ notna(Val(prev_row).sma_50)
    /\ notna(Val(prev_row).sma_200)

GoldenCross ==
    /\ Val(Val(prev_row).sma_50) <= Val(Val(prev_row).sma_200)
    /\ Val(row.sma_50) > Val(row.sma_200)

DeathCross ==
    /\ Val(Val(prev_row).sma_50) >= Val(Val(prev_row).sma_200)
    /\ Val(row.sma_50) < Val(row.sma_200)

\* C4: with the current and the previous pair of averages known, a golden
\* cross (prev 50 <= prev 200, now 50 > 200) gives cross BUY strength 2
\* "golden cross occurred", and a death cross (prev 50 >= prev 200, now
\* 50 < 200) gives SELL strength 2 "death cross occurred".
C4_CrossTransition ==
    (Detected /\ CrossKnown /\ PrevKnown) =>
        /\ GoldenCross =>
            Is("cross", "BUY", 2) /\ signals["cross"].label = "golden cross occurred"
        /\ DeathCross =>
            Is("cross", "SELL", 2) /\ signals["cross"].label = "death cross occurred"

C4_Witness ==
    /\ Detected /\ CrossKnown /\ PrevKnown
    /\ Val(Val(prev_row).sma_50) = Val(Val(prev_row).sma_200)
    /\ DeathCross
    /\ Is("cross", "SELL", 2)

Fired == PrevKnown /\ (GoldenCross \/ DeathCross)

\* C5: the steady-state rule applies exactly when the transition did not
\* fire (no previous row, a previous average unknown, or no crossing): then
\* cross is BUY strength 1 if sma_50 > sma_200 and SELL strength 1
\* otherwise (also when they are equal); a fired transition keeps its
\* strength 2.
C5_CrossFallback ==
    (Detected /\ CrossKnown) =>
        /\ ~Fired =>
            IF Val(row.sma_50) > Val(row.sma_200)
            THEN Is("cross", "BUY", 1) /\ signals["cross"].label = "golden cross holding"
            ELSE Is("cross", "SELL", 1) /\ signals["cross"].label = "death cross holding"
        /\ Fired =>
            /\ signals["cross"].strength = 2
            /\ signals["cross"].label \in {"golden cross occurred", "death cross occurred"}

C5_Witness ==
    /\ Detected /\ CrossKnown /\ PrevKnown
    /\ Val(row.sma_50) = Val(row.sma_200)
    /\ Val(Val(prev_row).sma_50) < Val(Val(prev_row).sma_200)
    /\ Is("cross", "SELL", 1)

\* C6: for a known rsi_14: below 30 BUY 2; [30, 45) BUY 1; [45, 55]
\* NEUTRAL 0; (55, 70] SELL 1; above 70 SELL 2.
C6_RsiRule ==
    (Detected /\ RsiKnown) =>
        LET rsi == Val(row.rsi_14) IN
        /\ rsi < 30 => Is("rsi", "BUY", 2)
        /\ (30 <= rsi /\ rsi < 45) => Is("rsi", "BUY", 1)
        /\ (45 <= rsi /\ rsi <= 55) => Is("rsi", "NEUTRAL", 0)
        /\ (55 < rsi /\ rsi <= 70) => Is("rsi", "SELL", 1)
        /\ rsi > 70 => Is("rsi", "SELL", 2)

C6_Witness ==
    /\ Detected
    /\ row.rsi_14 = <<70>>
    /\ Is("rsi", "SELL", 1)

\* pct = (close - sma_200) / sma_200 against the fraction p/q, q > 0
PctGT(p, q) ==
    LET n == Val(row.close) - Val(row.sma_200)
        d == Val(row.sma_200)
    IN IF d > 0 THEN n * q > p * d ELSE n * q < p * d

PctLT(p, q) ==
    LET n == Val(row.close) - Val(row.sma_200)
        d == Val(row.sma_200)
    IN IF d > 0 THEN n * q < p * d ELSE n * q > p * d

\* C7: with close and a nonzero sma_200 known: pct > 0.05 BUY 2;
\* 0 < pct <= 0.05 BUY 1; pct < -0.05 SELL 2; -0.05 <= pct <= 0 SELL 1;
\* never NEUTRAL.
C7_Sma200Rule ==
    (Detected /\ Sma200Known) =>
        /\ PctGT(1, 20) => Is("sma200", "BUY", 2)
        /\ (PctGT(0, 1) /\ ~PctGT(1, 20)) => Is("sma200", "BUY", 1)
        /\ PctLT(-1, 20) => Is("sma200", "SELL", 2)
        /\ (~PctLT(-1, 20) /\ ~PctGT(0, 1)) => Is("sma200", "SELL", 1)
        /\ signals["sma200"].signal # "NEUTRAL"

C7_Witness ==
    /\ Detected
    /\ row.close = <<147>> /\ row.sma_200 = <<140>>
    /\ Is("sma200", "BUY", 1)

AtSma200 == Sma200Known /\ Val(row.close) = Val(row.sma_200)

\* C8 as stated: when close equals sma_200 (pct = 0) the sma200 record is
\* BUY strength 1.
C8_Original_ZeroPctBuys ==
    (Detected /\ AtSma200) => Is("sma200", "BUY", 1)

\* C8 (amended): when close equals a nonzero sma_200 (pct = 0) the sma200
\* record is SELL strength 1.
C8_ZeroPctSells ==
    (Detected /\ AtSma200) => Is("sma200", "SELL", 1)

C8_Witness ==
    /\ Detected /\ AtSma200
    /\ signals["sma200"].signal = "SELL"
    /\ signals["sma200"].label = "SMA200 -"

\* close against the zones; both sides are multiplied by ten
AtOrAboveUpperZone ==
    10 * Val(row.close) >=
        10 * Val(row.bb_middle) + 7 * (Val(row.bb_upper) - Val(row.bb_middle))

AtOrBelowLowerZone ==
    10 * Val(row.close) <=
        10 * Val(row.bb_middle) - 7 * (Val(row.bb_middle) - Val(row.bb_lower))

\* C9: with close and the three bands known: close >= upper_zone SELL 1;
\* otherwise close <= lower_zone BUY 1; otherwise NEUTRAL 0; when both
\* tests hold the result is SELL.
C9_BollingerRule ==
    (Detected /\ BbKnown) =>
        /\ AtOrAboveUpperZone => Is("bb", "SELL", 1)
        /\ (~AtOrAboveUpperZone /\ AtOrBelowLowerZone) => Is("bb", "BUY", 1)
        /\ (~AtOrAboveUpperZone /\ ~AtOrBelowLowerZone) => Is("bb", "NEUTRAL", 0)

C9_Witness ==
    /\ Detected /\ BbKnown
    /\ row.bb_upper = row.close /\ row.bb_middle = row.close /\ row.bb_lower = row.close
    /\ Is("bb", "SELL", 1)

\* C10: with macd and macd_signal known: macd > macd_signal BUY 1;
\* macd < macd_signal SELL 1; equal NEUTRAL 0.
C10_MacdRule ==
    (Detected /\ MacdKnown) =>
        LET diff == Val(row.macd) - Val(row.macd_signal) IN
        /\ diff > 0 => Is("macd", "BUY", 1)
        /\ diff < 0 => Is("macd", "SELL", 1)
        /\ diff = 0 => Is("macd", "NEUTRAL", 0)

C10_Witness ==
    /\ Detected /\ MacdKnown
    /\ Val(row.macd) = Val(row.macd_signal)
    /\ Is("macd", "NEUTRAL", 0)

\* C11: for a known mfi_14: below 20 BUY 2; above 80 SELL 2; [20, 80]
\* NEUTRAL 0; strength 1 never occurs.
C11_MfiRule ==
    (Detected /\ MfiKnown) =>
        LET mfi == Val(row.mfi_14) IN
        /\ mfi < 20 => Is("mfi", "BUY", 2)
        /\ mfi > 80 => Is("mfi", "SELL", 2)
        /\ (20 <= mfi /\ mfi <= 80) => Is("mfi", "NEUTRAL", 0)
        /\ signals["mfi"].strength # 1

C11_Witness ==
    /\ Detected
    /\ row.mfi_14 = <<20>>
    /\ Is("mfi", "NEUTRAL", 0)

Labels == {"StrongBuy", "Buy", "Neutral", "Sell", "StrongSell"}

\* C12: aggregation is defined for every SignalSet over the six keys: it
\* always yields one of the five labels with an integral number of half
\* points, and the empty SignalSet yields (Neutral, 0.0).
C12_AggregateTotal ==
    /\ pc = "detected" => ENABLED ComputeOverall
    /\ pc = "done" =>
        /\ overall.label \in Labels
        /\ overall.score \in -30..30
        /\ DOMAIN signals = {} => (overall.label = "Neutral" /\ overall.score = 0)

C12_Witness ==
    /\ pc = "done"
    /\ DOMAIN signals = {}
    /\ overall = [label |-> "Neutral", score |-> 0]

\* C13: for every row and optional previous row the score of
\* aggregate(detect(row, previous)) is a multiple of 0.5 within
\* [-13.5, +13.5] (half points: an integer in -27..27).
C13_ScoreFinite ==
    pc = "done" => overall.score \in -27..27

C13_Witness ==
    /\ pc = "done"
    /\ row.rsi_14 # NA /\ row.macd # NA /\ row.close # NA /\ row.sma_50 # NA
    /\ row.bb_upper # NA /\ row.mfi_14 # NA /\ prev_row # NA
    /\ DOMAIN signals = Keys
    /\ overall.score = 25

Sma200ZeroOrUnknown == row.sma_200 = NA \/ Val(row.sma_200) = 0

\* C14: when sma_200 is 0 or unknown the sma200 key is omitted, and every
\* other rule whose inputs are known is still emitted, cross with
\* sma_200 = 0 included.
C14_DivisionGuard ==
    (Detected /\ Sma200ZeroOrUnknown) =>
        /\ ~Has("sma200")
        /\ RsiKnown => Has("rsi")
        /\ MacdKnown => Has("macd")
        /\ CrossKnown => Has("cross")
        /\ BbKnown => Has("bb")
        /\ MfiKnown => Has("mfi")

C14_Witness ==
    /\ Detected
    /\ row.sma_200 = <<0>> /\ notna(row.close) /\ notna(row.sma_50)
    /\ ~Has("sma200")
    /\ Is("cross", "BUY", 1)

\* the row with every field outside keep made unknown
Blank(r, keep) == [f \in DOMAIN r |-> IF f \in keep THEN r[f] ELSE NA]

\* the record of key k in a SignalSet, or NA when the key is absent
RecordOf(sigs, k) == IF k \in DOMAIN sigs THEN <<sigs[k]>> ELSE NA

\* C16: the presence and the record of every key are those its rule gives
\* on the rule's own inputs alone, with every other field unknown and,
\* except for cross, without a previous row; so neither the previous row
\* nor a field the rule does not read can change them.
C16_OwnInputsOnly ==
    Detected =>
        /\ RecordOf(signals, "rsi") =
            RecordOf(RsiRule(EmptyDict, Blank(row, {"rsi_14"})), "rsi")
        /\ RecordOf(signals, "macd") =
            RecordOf(MacdRule(EmptyDict, Blank(row, {"macd", "macd_signal"})), "macd")
        /\ RecordOf(signals, "sma200") =
            RecordOf(Sma200Rule(EmptyDict, Blank(row, {"close", "sma_200"})), "sma200")
        /\ RecordOf(signals, "cross") =
            RecordOf(CrossRule(EmptyDict, Blank(row, {"sma_50", "sma_200"}), prev_row), "cross")
        /\ RecordOf(signals, "bb") =
            RecordOf(BbRule(EmptyDict,
                Blank(row, {"close", "bb_upper", "bb_lower", "bb_middle"})), "bb")
        /\ RecordOf(signals, "mfi") =
            RecordOf(MfiRule(EmptyDict, Blank(row, {"mfi_14"})), "mfi")

C16_Witness ==
    /\ Detected
    /\ prev_row # NA
    /\ row.rsi_14 = NA /\ row.mfi_14 = NA /\ row.sma_50 = NA
    /\ Is("macd", "BUY", 1)
    /\ Is("bb", "NEUTRAL", 0)
    /\ Is("sma200", "BUY", 1)

\* signed strength of the record each rule gives on row r
RsiSigned(r) == signed_strength(RsiRule(EmptyDict, r)["rsi"])

MfiSigned(r) == signed_strength(MfiRule(EmptyDict, r)["mfi"])

BbSigned(r) == signed_strength(BbRule(EmptyDict, r)["bb"])

Sma200Signed(r) == signed_strength(Sma200Rule(EmptyDict, r)["sma200"])

\* C17: more extreme values never lower the strength: the rsi and mfi
\* signed strengths do not increase with rsi_14 and mfi_14, the bb signed
\* strength does not increase with close (bands fixed), and the sma200
\* signed strength does not decrease with close (positive sma_200 fixed).
C17_Monotonic ==
    Detected =>
        /\ RsiKnown =>
            \A v \in RsiVals : v >= Val(row.rsi_14) =>
                RsiSigned([row EXCEPT !.rsi_14 = <<v>>])
                    <= signed_strength(signals["rsi"])
        /\ MfiKnown =>
            \A v \in MfiVals : v >= Val(row.mfi_14) =>
                MfiSigned([row EXCEPT !.mfi_14 = <<v>>])
                    <= signed_strength(signals["mfi"])
        /\ BbKnown =>
            \A c \in CloseVals : c >= Val(row.close) =>
                BbSigned([row EXCEPT !.close = <<c>>])
                    <= signed_strength(signals["bb"])
        /\ (Sma200Known /\ Val(row.sma_200) > 0) =>
            \A c \in CloseVals : c >= Val(row.close) =>
                Sma200Signed([row EXCEPT !.close = <<c>>])
                    >= signed_strength(signals["sma200"])

C17_Witness ==
    /\ Detected
    /\ row.rsi_14 = <<29>> /\ Is("rsi", "BUY", 2)
    /\ row.mfi_14 = <<19>> /\ Is("mfi", "BUY", 2)
    /\ row.close = <<126>> /\ Is("bb", "BUY", 1) /\ Is("sma200", "SELL", 2)

\* C18: the overall label is always one of the five label strings, and
\* these are exactly the keys of SIGNAL_COLORS and the options of the
\* Screener's signal filter, and the strings of the Home counters are
\* among them; with all five options selected the filter passes every
\* label.
C18_ClosedLabels ==
    /\ {LabelText[l] : l \in Labels} = SIGNAL_COLORS
    /\ {LabelText[l] : l \in Labels} = sig_filter_options
    /\ buy_sigs = {LabelText["Buy"], LabelText["StrongBuy"]}
    /\ sell_sigs = {LabelText["Sell"], LabelText["StrongSell"]}
    /\ pc = "done" =>
        /\ overall.label \in Labels
        /\ LabelText[overall.label] \in SIGNAL_COLORS
        /\ sig_filter_pass(sig_filter_options, LabelText[overall.label])

C18_Witness ==
    /\ pc = "done"
    /\ overall.label = "Neutral"
    /\ sig_filter_pass(sig_filter_options, LabelText[overall.label])
    /\ ~sig_filter_pass(buy_sigs, LabelText[overall.label])

\* C20: on an overview row, the sma200 key is present whenever the latest
\* close (column price) and a nonzero sma_200 are known, and the bb key
\* whenever the latest close and the three bands are known.
C20_OverviewCloseReachesRules ==
    Detected =>
        /\ (notna(row.price) /\ notna(row.sma_200) /\ Val(row.sma_200) # 0)
            => Has("sma200")
        /\ (notna(row.price) /\ notna(row.bb_upper) /\ notna(row.bb_lower)
                /\ notna(row.bb_middle))
            => Has("bb")

\* C15: two evaluations of identical (current, previous) inputs, whatever
\* each run evaluated before and however the two runs interleave, hold
\* identical SignalSets and identical (label, score).
C15_Deterministic ==
    \A e \in Evals, f \in Evals :
        (row[e] = row[f] /\ prev_row[e] = prev_row[f]) =>
            /\ (pc[e] # "start" /\ pc[f] # "start") => signals[e] = signals[f]
            /\ (pc[e] = "done" /\ pc[f] = "done") => overall[e] = overall[f]

C15_Witness ==
    /\ pc["A"] = "done" /\ pc["B"] = "done"
    /\ row["A"] = BullRow /\ row["B"] = BullRow
    /\ prev_row["A"] # NA /\ prev_row["A"] = prev_row["B"]
    /\ signals["A"] = signals["B"]
    /\ overall["A"] = overall["B"]
    /\ overall["A"].label = "StrongBuy"

\* the results one run alone would get for the row it is on
SequentialResults(e) ==
    /\ pc[e] # "start" => signals[e] = detect_signals(row[e], prev_row[e])
    /\ pc[e] = "done" =>
        overall[e] = compute_overall_signal(detect_signals(row[e], prev_row[e]))

\* a step of detect_signals or compute_overall_signal leaves the rows of
\* every run, and the SignalSets being aggregated, as they were
InputsUntouched ==
    \A e \in Evals :
        /\ pc[e] # "done" => (row'[e] = row[e] /\ prev_row'[e] = prev_row[e])
        /\ pc[e] = "detected" => signals'[e] = signals[e]

\* C19: detection and aggregation change none of their inputs, and runs
\* interleaved in any order get the results each would get alone.
C19_NoSharedState ==
    /\ [](\A e \in Evals : SequentialResults(e))
    /\ [][InputsUntouched]_vars

C19_Witness ==
    /\ pc["A"] = "detected" /\ pc["B"] = "done"
    /\ row["A"] = BearRow /\ row["B"] = BullRow
    /\ signals["A"] # signals["B"]
    /\ overall["A"] # NA /\ overall["A"] # compute_overall_signal(signals["A"])

\* C21: the Comparison page's indicator loop never raises; for a symbol
\* with an overview row the label and score are those of
\* compute_overall_signal(detect_signals(row)), and for a symbol without
\* one they are (Neutral, 0).
C21_ComparisonNeverRaises ==
    /\ pc # "raised"
    /\ pc = "done" =>
        overall = IF DOMAIN row # {}
                  THEN compute_overall_signal(detect_signals(row, NA))
                  ELSE [label |-> "Neutral", score |-> 0]

\* C22: on the Stock Detail page, when the previous close is zero or
\* unknown the day-change percentage is the fallback 0, and the percentage
\* is never NaN and never the result of a division by zero.
C22_DayChangeGuarded ==
    pc \in {"changed", "detected", "done"} =>
        LET pclose == Val(prev_row).close IN
        /\ (pclose = NA \/ Val(pclose) = 0) => page.chg_pct = ZeroPct
        /\ page.chg_pct # NA
        /\ Val(page.chg_pct).den # 0

\* C24: when one price row is loaded the Stock Detail page passes the
\* current row as its own previous row, and the SignalSet is the one
\* detect_signals gives without a previous row; a cross record then has
\* strength 1.
C24_OwnPreviousIsNoPrevious ==
    (Detected /\ Len(page.df) = 1) =>
        /\ prev_row = <<row>>
        /\ signals = detect_signals(row, NA)
        /\ Has("cross") => signals["cross"].strength = 1

C24_Witness ==
    /\ pc = "done"
    /\ Len(page.df) = 1
    /\ prev_row = <<row>>
    /\ Is("cross", "BUY", 1)
    /\ Val(row.sma_50) = 141 /\ Val(row.sma_200) = 140

\* C23: a cross record is BUY iff the current sma_50 is above the current
\* sma_200 and SELL otherwise, never NEUTRAL; without the previous row the
\* record has the same direction and strength 1, so the previous row can
\* only raise the strength to 2.
C23_CrossDirectionFromCurrentRow ==
    (Detected /\ Has("cross")) =>
        LET alone == CrossRule(EmptyDict, row, NA)["cross"] IN
        /\ signals["cross"].signal =
                IF Val(row.sma_50) > Val(row.sma_200) THEN "BUY" ELSE "SELL"
        /\ signals["cross"].signal = alone.signal
        /\ alone.strength = 1
        /\ signals["cross"].strength \in {1, 2}

C23_Witness ==
    /\ Detected /\ PrevKnown
    /\ Is("cross", "SELL", 2)
    /\ Val(row.sma_50) < Val(row.sma_200)
    /\ Val(Val(prev_row).sma_50) = Val(Val(prev_row).sma_200)

\* the strengths each rule can give
StrengthRange ==
    [rsi |-> {0, 1, 2}, macd |-> {0, 1}, bb |-> {0, 1}, mfi |-> {0, 2},
     sma200 |-> {1, 2}, cross |-> {1, 2}]

\* C25: in every record of the SignalSet the direction is NEUTRAL iff the
\* strength is 0, and the strength is in its rule's range: rsi 0..2, macd
\* and bb 0..1, mfi 0 or 2, sma200 and cross 1..2.
C25_StrengthRanges ==
    Detected =>
        \A k \in DOMAIN signals :
            /\ signals[k].signal \in {"BUY", "SELL", "NEUTRAL"}
            /\ signals[k].signal = "NEUTRAL" <=> signals[k].strength = 0
            /\ signals[k].strength \in StrengthRange[k]

C25_Witness ==
    /\ Detected
    /\ DOMAIN signals = Keys
    /\ Is("rsi", "NEUTRAL", 0) /\ Is("macd", "NEUTRAL", 0)
    /\ Is("bb", "BUY", 1) /\ Is("mfi", "SELL", 2)
    /\ Is("sma200", "SELL", 2) /\ Is("cross", "BUY", 1)

\* the number of records of one direction
CountOf(sigs, direction) == Cardinality({k \in DOMAIN sigs : sigs[k].signal = direction})

\* C26: for the SignalSet of a row, StrongBuy needs at least two BUY
\* records and StrongSell at least two SELL records; Buy needs at least one
\* BUY record and Sell at least one SELL record.
C26_LabelsNeedIndicators ==
    pc = "done" =>
        /\ overall.label = "StrongBuy" => CountOf(signals, "BUY") >= 2
        /\ overall.label = "StrongSell" => CountOf(signals, "SELL") >= 2
        /\ overall.label = "Buy" => CountOf(signals, "BUY") >= 1
        /\ overall.label = "Sell" => CountOf(signals, "SELL") >= 1

C26_Witness ==
    /\ pc = "done"
    /\ overall.label = "StrongBuy"
    /\ CountOf(signals, "BUY") = 2
    /\ Is("cross", "BUY", 2)

\* BUY and SELL exchanged in every record, strengths unchanged
Swapped(sigs) ==
    [k \in DOMAIN sigs |->
        [sigs[k] EXCEPT !.signal = IF @ = "BUY" THEN "SELL"
                                   ELSE IF @ = "SELL" THEN "BUY" ELSE @]]

Mirror ==
    [StrongBuy |-> "StrongSell", Buy |-> "Sell", Neutral |-> "Neutral",
     Sell |-> "Buy", StrongSell |-> "StrongBuy"]

\* C27: aggregating the SignalSet with BUY and SELL exchanged gives the
\* negated score and the mirrored label.
C27_Antisymmetric ==
    pc = "done" =>
        LET swapped == compute_overall_signal(Swapped(signals)) IN
        /\ swapped.score = -overall.score
        /\ swapped.label = Mirror[overall.label]

C27_Witness ==
    /\ pc = "done"
    /\ overall = [label |-> "Sell", score |-> -4]
    /\ CountOf(signals, "BUY") >= 1 /\ CountOf(signals, "NEUTRAL") >= 1
    /\ compute_overall_signal(Swapped(signals)) = [label |-> "Buy", score |-> 4]

\* the labels from most bearish to most bullish
Rank == [StrongSell |-> 0, Sell |-> 1, Neutral |-> 2, Buy |-> 3, StrongBuy |-> 4]

\* every score a SignalSet can have, in half points
Scores == -27..27

\* C28: the label is monotone in the score: against the label of any other
\* score, the aggregate's label is not more bullish when its score is not
\* higher, and not more bearish when its score is not lower.
C28_LabelMonotone ==
    pc = "done" =>
        \A s \in Scores :
            /\ overall.score <= s => Rank[overall.label] <= Rank[LabelOf(s)]
            /\ s <= overall.score => Rank[LabelOf(s)] <= Rank[overall.label]

C28_Witness ==
    /\ pc = "done"
    /\ overall = [label |-> "StrongSell", score |-> -10]
    /\ LabelOf(-9) = "Sell"
    /\ LabelOf(-11) = "StrongSell"

\* the stored news of the selected symbols
SelectedNews ==
    {r \in page.stock_news : \E i \in 1..Len(page.sym_filter) : r.symbol = page.sym_filter[i]}

====
